---- MODULE Spec2Model ----
(***************************************************************************)
(* jsonschema-transformer: the schema model (schema.rs), the path searcher *)
(* (searcher.rs) and the JavaScript code generator (codegen.rs).           *)
(***************************************************************************)
EXTENDS Integers, Sequences, FiniteSets, TLC

VARIABLES
    lhs,          \* source schema handed to find_path
    rhs,          \* target schema handed to find_path
    schema_rels,  \* SchemaSearcher.schema_rels: (lhs, rhs) -> path
    result,       \* what find_path returned ("none" before the call)
    ir,           \* generate: the instructions the iterator still holds
    varstack,     \* JSCodegen.varstack
    uniq,         \* JSCodegen.uniq
    frags,        \* generate: the fragments pushed so far
    prog,         \* the statements the fragments spell, one per fragment
    code,         \* the source text generate returned
    env,          \* running the function: variable bindings
    ip,           \* running the function: index of the next statement
    retval,       \* running the function: what it returned
    calls,        \* calls of find_path made on the searcher before this one
    value,        \* the serde_json Value handed to Schema::try_from
    schema,       \* what Schema::try_from returned ("none" before the call)
    left,         \* left operand of an ExtNat comparison
    right,        \* right operand of an ExtNat comparison
    ordering,     \* what left.partial_cmp(&right) returned ("none" before)
    inpath,       \* what input_path() returned ("none" before the call)
    dist,         \* what lhs.edit_distance(&rhs) returned ("none" before)
    pc            \* position of the driver

searcher_vars == <<lhs, rhs, schema_rels, result, calls>>
codegen_vars == <<ir, varstack, uniq, frags, prog, code>>
run_vars == <<env, ip, retval>>
unit_vars == <<value, schema, left, right, ordering, inpath, dist>>
vars == <<searcher_vars, codegen_vars, run_vars, unit_vars, pc>>

(***************************************************************************)
(* Bounds of the model.                                                    *)
(***************************************************************************)
\* Largest number of nodes of a schema tree drawn as input.
MaxNodes == 3
\* Largest length of an array in a value the generated function is run on.
MaxLen == 2

(***************************************************************************)
(* schema.rs: Ground and Schema.                                           *)
(***************************************************************************)
\* enum Ground { Num, Bool, String, Null }
Grounds == {"Num", "Bool", "String", "Null"}

\* enum Schema { Ground(Ground), Arr(Arc<Schema>), Obj(BTreeMap), True, False }
Ground(g) == [tag |-> "Ground", g |-> g]
Arr(s) == [tag |-> "Arr", s |-> s]
Obj(m) == [tag |-> "Obj", m |-> m]
True == [tag |-> "True"]
False == [tag |-> "False"]

\* Property names, in the ascending order a BTreeMap<Arc<String>, _> keeps
\* them ("bar" < "foo" byte-wise).
KeyOrder == <<"bar", "foo">>
Keys == {KeyOrder[i] : i \in DOMAIN KeyOrder}

\* BTreeMap::iter / BTreeMap::keys: the keys of m in ascending order.
iter(m) == SelectSeq(KeyOrder, LAMBDA k : k \in DOMAIN m)

RECURSIVE Size(_)
RECURSIVE SumSizes(_, _)
\* Number of nodes of a schema tree.
Size(s) ==
    CASE s.tag = "Arr" -> 1 + Size(s.s)
      [] s.tag = "Obj" -> 1 + SumSizes(s.m, iter(s.m))
      [] OTHER -> 1
SumSizes(m, ks) ==
    IF ks = <<>> THEN 0 ELSE Size(m[Head(ks)]) + SumSizes(m, Tail(ks))

RECURSIVE SchemasUpTo(_)
\* Every schema of at most n nodes over Keys.
SchemasUpTo(n) ==
    IF n = 0 THEN {}
    ELSE LET sub == SchemasUpTo(n - 1)
             objs == UNION {{Obj(m) : m \in [D -> sub]} : D \in SUBSET Keys}
         IN  {True, False} \cup {Ground(g) : g \in Grounds}
             \cup {Arr(s) : s \in sub}
             \cup {o \in objs : Size(o) <= n}

Schemas == SchemasUpTo(MaxNodes)

(***************************************************************************)
(* ir.rs: the instruction set the searcher emits.                          *)
(***************************************************************************)
G2G(from, to) == [op |-> "G2G", from |-> from, to |-> to]
Copy == [op |-> "Copy"]
PushArr == [op |-> "PushArr"]
PopArr == [op |-> "PopArr"]
PushObj == [op |-> "PushObj"]
PopObj == [op |-> "PopObj"]
PushKey(k) == [op |-> "PushKey", k |-> k]
PopKey == [op |-> "PopKey"]
Abs(k) == [op |-> "Abs", k |-> k]
Extr(k) == [op |-> "Extr", k |-> k]
Inv == [op |-> "Inv"]

(***************************************************************************)
(* searcher.rs: SchemaSearcher::find_path.                                 *)
(***************************************************************************)
\* Result<Vec<IR>, SearchErr>
Ok(path) == [tag |-> "Ok", path |-> path]
NoPath == [tag |-> "Err", err |-> "NoPath"]

RECURSIVE find_path(_, _, _)

\* Faulty variant of ground_ground: the operands of G2G swapped.
ground_ground_swapped(g1, g2) ==
    IF g1 = g2 THEN Ok(<<Copy>>) ELSE Ok(<<G2G(g2, g1)>>)

\* (Ground(g1), Ground(g2))
ground_ground(g1, g2) ==
    IF g1 = g2 THEN Ok(<<Copy>>) ELSE Ok(<<G2G(g1, g2)>>)

\* Faulty variant of ground_obj: Abs(k) emitted before the inner conversion.
ground_obj_abs_first(rels, l, o) ==
    IF Len(iter(o)) # 1 THEN NoPath
    ELSE LET k == iter(o)[1]
             inner == find_path(rels, l, o[k])
         IN  IF inner.tag = "Err" THEN inner
             ELSE Ok(<<Abs(k)>> \o inner.path)

\* (Ground(_), Obj(o))
ground_obj(rels, l, o) ==
    IF Len(iter(o)) # 1 THEN NoPath
    ELSE LET k == iter(o)[1]
             v == o[k]
             inner == find_path(rels, l, v)
         IN  IF inner.tag = "Err" THEN inner
             ELSE Ok(Append(inner.path, Abs(k)))

\* Faulty variant of arr_arr: the closing PopArr forgotten.
arr_arr_unclosed(rels, s1, s2) ==
    LET inner_conv == find_path(rels, s1, s2)
    IN  IF inner_conv.tag = "Err" THEN inner_conv
        ELSE Ok(<<PushArr>> \o inner_conv.path)

\* Faulty variant of arr_arr: a failed element search taken for an empty path.
arr_arr_swallows(rels, s1, s2) ==
    LET inner_conv == find_path(rels, s1, s2)
    IN  Ok(<<PushArr>>
           \o (IF inner_conv.tag = "Err" THEN <<>> ELSE inner_conv.path)
           \o <<PopArr>>)

\* (Arr(s1), Arr(s2))
arr_arr(rels, s1, s2) ==
    LET inner_conv == find_path(rels, s1, s2)
    IN  IF inner_conv.tag = "Err" THEN inner_conv
        ELSE Ok(<<PushArr>> \o inner_conv.path \o <<PopArr>>)

RECURSIVE extr_loop(_, _, _)
\* The for loop of the (Obj(o), Ground(g1)) arm over the entries ks still to
\* visit: the path it leaves behind.
extr_loop(o, g1, ks) ==
    IF ks = <<>> THEN <<>>
    ELSE LET k == Head(ks)
             v == o[k]
         IN  IF v.tag = "Ground" /\ g1 = v.g THEN <<Extr(k)>>
             ELSE extr_loop(o, g1, Tail(ks))

RECURSIVE extr_loop_no_break(_, _, _)
extr_loop_no_break(o, g1, ks) ==
    IF ks = <<>> THEN <<>>
    ELSE LET k == Head(ks)
             v == o[k]
         IN  (IF v.tag = "Ground" /\ g1 = v.g THEN <<Extr(k)>> ELSE <<>>)
                 \o extr_loop_no_break(o, g1, Tail(ks))

\* Faulty variant of obj_ground: the loop goes on after the first match (no break).
obj_ground_no_break(o, g1) ==
    LET path == extr_loop_no_break(o, g1, iter(o))
    IN  IF Len(path) > 0 THEN Ok(path) ELSE NoPath

\* (Obj(o), Ground(g1))
obj_ground(o, g1) ==
    LET path == extr_loop(o, g1, iter(o))
    IN  IF Len(path) > 0 THEN Ok(path) ELSE NoPath

RECURSIVE key_loop_keeps_prefix(_, _, _, _, _)
\* Faulty variant of key_loop: a failed key ends the loop with the path built
\* so far.
key_loop_keeps_prefix(rels, o1, o2, ks, path) ==
    IF ks = <<>> THEN Ok(Append(path, PopObj))
    ELSE LET k1 == Head(ks)
         IN  IF k1 \in DOMAIN o2
             THEN LET key_conv == find_path(rels, o1[k1], o2[k1])
                  IN  IF key_conv.tag = "Err" THEN Ok(path)
                      ELSE key_loop_keeps_prefix(rels, o1, o2, Tail(ks),
                               Append(path, PushKey(k1)) \o key_conv.path
                                   \o <<PopKey>>)
             ELSE key_loop_keeps_prefix(rels, o1, o2, Tail(ks), path)

RECURSIVE key_loop(_, _, _, _, _)
\* The second for loop of the (Obj(o1), Obj(o2)) arm over the entries ks of o1
\* still to visit, with the path built so far.
key_loop(rels, o1, o2, ks, path) ==
    IF ks = <<>> THEN Ok(Append(path, PopObj))
    ELSE LET k1 == Head(ks)
         IN  IF k1 \in DOMAIN o2
             THEN LET key_conv == find_path(rels, o1[k1], o2[k1])
                  IN  IF key_conv.tag = "Err" THEN key_conv
                      ELSE key_loop(rels, o1, o2, Tail(ks),
                               Append(path, PushKey(k1)) \o key_conv.path
                                   \o <<PopKey>>)
             ELSE key_loop(rels, o1, o2, Tail(ks), path)

\* Faulty variant of obj_obj: the source keys visited in descending order.
obj_obj_descending(rels, o1, o2) ==
    IF \E k2 \in DOMAIN o2 : k2 \notin DOMAIN o1 THEN NoPath
    ELSE key_loop(rels, o1, o2,
             [i \in DOMAIN iter(o1) |-> iter(o1)[Len(iter(o1)) + 1 - i]],
             <<PushObj>>)

\* (Obj(o1), Obj(o2))
obj_obj(rels, o1, o2) ==
    IF \E k2 \in DOMAIN o2 : k2 \notin DOMAIN o1 THEN NoPath
    ELSE key_loop(rels, o1, o2, iter(o1), <<PushObj>>)

\* Faulty variant of trivial: the False arm tried before the True arm.
trivial_false_first(l, r) ==
    IF l.tag = "False" \/ r.tag = "False" THEN NoPath ELSE Ok(<<>>)

\* (True, _) | (_, True) and, after it, (False, _) | (_, False)
trivial(l, r) ==
    IF l.tag = "True" \/ r.tag = "True" THEN Ok(<<>>) ELSE NoPath

\* Faulty variant of search: the (Arr(_), Obj(_)) arm emits the reserved Inv.
search_with_inv(rels, l, r) ==
    CASE l.tag = "Ground" /\ r.tag = "Ground" -> ground_ground(l.g, r.g)
      [] l.tag = "Ground" /\ r.tag = "Arr" -> NoPath
      [] l.tag = "Ground" /\ r.tag = "Obj" -> ground_obj(rels, l, r.m)
      [] l.tag = "Arr" /\ r.tag = "Ground" -> NoPath
      [] l.tag = "Arr" /\ r.tag = "Arr" -> arr_arr(rels, l.s, r.s)
      [] l.tag = "Arr" /\ r.tag = "Obj" -> Ok(<<Inv>>)
      [] l.tag = "Obj" /\ r.tag = "Ground" -> obj_ground(l.m, r.g)
      [] l.tag = "Obj" /\ r.tag = "Arr" -> NoPath
      [] l.tag = "Obj" /\ r.tag = "Obj" -> obj_obj(rels, l.m, r.m)
      [] OTHER -> trivial(l, r)

\* The match on (lhs, rhs), arms in source order.
search(rels, l, r) ==
    CASE l.tag = "Ground" /\ r.tag = "Ground" -> ground_ground(l.g, r.g)
      [] l.tag = "Ground" /\ r.tag = "Arr" -> NoPath
      [] l.tag = "Ground" /\ r.tag = "Obj" -> ground_obj(rels, l, r.m)
      [] l.tag = "Arr" /\ r.tag = "Ground" -> NoPath
      [] l.tag = "Arr" /\ r.tag = "Arr" -> arr_arr(rels, l.s, r.s)
      [] l.tag = "Arr" /\ r.tag = "Obj" -> NoPath
      [] l.tag = "Obj" /\ r.tag = "Ground" -> obj_ground(l.m, r.g)
      [] l.tag = "Obj" /\ r.tag = "Arr" -> NoPath
      [] l.tag = "Obj" /\ r.tag = "Obj" -> obj_obj(rels, l.m, r.m)
      [] OTHER -> trivial(l, r)

\* find_path: the memo table is consulted first; nothing is ever inserted.
find_path(rels, l, r) ==
    IF <<l, r>> \in DOMAIN rels THEN Ok(rels[<<l, r>>])
    ELSE search(rels, l, r)

(***************************************************************************)
(* codegen.rs: Level, JSCodegen and its path helpers.                      *)
(***************************************************************************)
\* enum Level { Var(String), Key(Arc<String>), Arr(String, String) }
Level_Var(name) == [lvl |-> "Var", name |-> name]
Level_Key(k) == [lvl |-> "Key", k |-> k]
Level_Arr(name, idx) == [lvl |-> "Arr", name |-> name, idx |-> idx]

\* JSCodegen::new("input", "output"): the parameter and the return variable.
arg == Level_Var("input")
retvar == Level_Var("output")

\* impl Display for Level
to_string(level) == IF level.lvl = "Key" THEN level.k ELSE level.name

\* peektop: the top frame, or retvar for an empty stack.
peektop(vs) == IF vs = <<>> THEN retvar ELSE vs[Len(vs)]

\* varstack.iter().nth_back(1).unwrap_or(&self.retvar)
nth_back_1(vs) == IF Len(vs) < 2 THEN retvar ELSE vs[Len(vs) - 1]

\* output_path panics when a Key is on top and the frame beneath is no Var.
output_path_panics(vs) ==
    peektop(vs).lvl = "Key" /\ nth_back_1(vs).lvl # "Var"

\* output_path, as text.
output_path(vs) ==
    LET top == peektop(vs)
    IN  CASE top.lvl = "Key" -> to_string(nth_back_1(vs)) \o "." \o top.k
          [] top.lvl = "Arr" -> top.name \o "[" \o top.idx \o "]"
          [] top.lvl = "Var" -> top.name

\* The location output_path names: a variable, a property of a variable or an
\* element of an array variable.
output_ref(vs) ==
    LET top == peektop(vs)
    IN  CASE top.lvl = "Key" ->
               [base |-> to_string(nth_back_1(vs)), sel |-> "key", at |-> top.k]
          [] top.lvl = "Arr" ->
               [base |-> top.name, sel |-> "idx", at |-> top.idx]
          [] top.lvl = "Var" ->
               [base |-> top.name, sel |-> "var", at |-> ""]

RECURSIVE input_path_from_names_var(_, _)
\* Faulty variant of input_path_from: a Var frame adds its name as a
\* property.
input_path_from_names_var(buf, vs) ==
    IF vs = <<>> THEN buf
    ELSE LET level == Head(vs)
         IN  CASE level.lvl = "Var" ->
                    input_path_from_names_var(buf \o "." \o level.name,
                                              Tail(vs))
               [] level.lvl = "Key" ->
                    input_path_from_names_var(buf \o "." \o level.k, Tail(vs))
               [] level.lvl = "Arr" ->
                    input_path_from_names_var(buf \o "[" \o level.idx \o "]",
                                              Tail(vs))

RECURSIVE input_path_from(_, _)
\* The for loop of input_path over the frames still to visit.
input_path_from(buf, vs) ==
    IF vs = <<>> THEN buf
    ELSE LET level == Head(vs)
         IN  CASE level.lvl = "Var" -> input_path_from(buf, Tail(vs))
               [] level.lvl = "Key" ->
                    input_path_from(buf \o "." \o level.k, Tail(vs))
               [] level.lvl = "Arr" ->
                    input_path_from(buf \o "[" \o level.idx \o "]", Tail(vs))

\* input_path, as text.
input_path(vs) == input_path_from(to_string(arg), vs)

\* The location input_path names: the steps taken from the parameter.
input_ref(vs) ==
    LET steps == SelectSeq(vs, LAMBDA level : level.lvl # "Var")
    IN  [i \in DOMAIN steps |->
            IF steps[i].lvl = "Key" THEN [sel |-> "key", at |-> steps[i].k]
            ELSE [sel |-> "idx", at |-> steps[i].idx]]

\* Faulty variant of new_var: the counter is left out of the name.
new_var_without_counter(prefix, n) == prefix \o ToString(0)

\* new_var: the name minted at counter value n.
new_var(prefix, n) == prefix \o ToString(n)

(***************************************************************************)
(* The statements of the generated function.  A fragment is the text the   *)
(* generator pushes; the statement beside it is what that text means.      *)
(***************************************************************************)
Assign(out, e) == [s |-> "assign", out |-> out, e |-> e]
Let(name, init) == [s |-> "let", name |-> name, init |-> init]
For(idx, in) == [s |-> "for", idx |-> idx, in |-> in]
End == [s |-> "end"]
Expr(f, in) == [f |-> f, in |-> in]

\* generate_ground_to_ground: the fragment, or "None".
g2g_text(from, to, out, in) ==
    CASE from = "Num" /\ to = "Bool" -> out \o " = !(" \o in \o " === 0);"
      [] from = "Bool" /\ to = "Num" -> out \o " = " \o in \o " ? 0 : 1;"
      [] from = "String" /\ to = "Num" -> out \o " = parseInt(" \o in \o ");"
      [] from = "String" /\ to = "Bool" -> out \o " = !!(" \o in \o ");"
      [] from = "Null" /\ to = "Num" -> out \o " = 0;"
      [] from = "Null" /\ to = "Bool" -> out \o " = false;"
      [] from = "Null" /\ to = "String" -> out \o " = \"null\""
      [] to = "String" -> out \o " = " \o in \o ".toString();"
      [] to = "Null" -> out \o " = null"
      [] OTHER -> "None"

\* generate_ground_to_ground: the expression assigned, arms in source order.
g2g_expr(from, to, in) ==
    CASE from = "Num" /\ to = "Bool" -> Expr("ne0", in)
      [] from = "Bool" /\ to = "Num" -> Expr("cond01", in)
      [] from = "String" /\ to = "Num" -> Expr("parseInt", in)
      [] from = "String" /\ to = "Bool" -> Expr("notnot", in)
      [] from = "Null" /\ to = "Num" -> Expr("zero", <<>>)
      [] from = "Null" /\ to = "Bool" -> Expr("false", <<>>)
      [] from = "Null" /\ to = "String" -> Expr("nullstr", <<>>)
      [] to = "String" -> Expr("toString", in)
      [] to = "Null" -> Expr("null", <<>>)
      [] OTHER -> Expr("None", <<>>)

RECURSIVE repeat_space(_)
\* " ".repeat(n)
repeat_space(n) == IF n = 0 THEN "" ELSE " " \o repeat_space(n - 1)

ends_with(frag, c) == Len(frag) > 0 /\ SubSeq(frag, Len(frag), Len(frag)) = c

RECURSIVE format_lines_dec_after(_, _)
\* Faulty variant of format_lines: the indent is decremented after the line
\* of the closing fragment, not before.
format_lines_dec_after(fs, indent) ==
    IF fs = <<>> THEN [tag |-> "Ok", text |-> ""]
    ELSE LET frag == Head(fs)
             dec == ends_with(frag, "}")
             after == IF dec THEN indent - 1
                      ELSE IF ends_with(frag, "{") THEN indent + 1
                      ELSE indent
         IN  IF dec /\ indent = 0 THEN [tag |-> "panic"]
             ELSE LET line == repeat_space(4 * indent) \o frag
                      rest == format_lines_dec_after(Tail(fs), after)
                  IN  IF rest.tag = "panic" THEN rest
                      ELSE [tag |-> "Ok",
                            text |-> IF Tail(fs) = <<>> THEN line
                                     ELSE line \o "\n" \o rest.text]

RECURSIVE format_lines(_, _)
\* The map over frags with the running indent: the lines joined by newlines,
\* or "panic" when indent (a usize) is decremented at 0.
format_lines(fs, indent) ==
    IF fs = <<>> THEN [tag |-> "Ok", text |-> ""]
    ELSE LET frag == Head(fs)
             dec == ends_with(frag, "}")
             ind == IF dec THEN indent - 1 ELSE indent
         IN  IF dec /\ indent = 0 THEN [tag |-> "panic"]
             ELSE LET line == repeat_space(4 * ind) \o frag
                      rest == format_lines(Tail(fs),
                                  IF ends_with(frag, "{") THEN ind + 1 ELSE ind)
                  IN  IF rest.tag = "panic" THEN rest
                      ELSE [tag |-> "Ok",
                            text |-> IF Tail(fs) = <<>> THEN line
                                     ELSE line \o "\n" \o rest.text]

\* The final format!: function(<arg>) { body return <retvar>; }
wrap_function(body) ==
    "function(" \o to_string(arg) \o ") {\n" \o body \o "\n    return "
        \o to_string(retvar) \o ";\n}"

(***************************************************************************)
(* The driver: one searcher and one call of find_path, then one generator  *)
(* and one call of generate on the path found, then one call of the        *)
(* function generated.                                                     *)
(***************************************************************************)
\* SchemaSearcher::new(): an empty table, and no call made yet.
NewSearcher ==
    /\ schema_rels = [p \in {} |-> <<>>]
    /\ result = "none"
    /\ calls = 0

\* JSCodegen::new("input", "output"), and generate not entered yet.
NewCodegen ==
    /\ ir = <<>>
    /\ varstack = <<>>
    /\ uniq = 0
    /\ frags = <<>>
    /\ prog = <<>>
    /\ code = ""

\* The generated function has not been called.
NotRun ==
    /\ env = [v \in {} |-> 0]
    /\ ip = 0
    /\ retval = "none"

\* No single function is under study.
NoUnit ==
    /\ value = "none"
    /\ schema = "none"
    /\ left = "none"
    /\ right = "none"
    /\ ordering = "none"
    /\ inpath = "none"
    /\ dist = "none"

\* SchemaSearcher::new(), JSCodegen::new("input", "output") and the two
\* schemas the caller built.
Init ==
    /\ lhs \in Schemas
    /\ rhs \in Schemas
    /\ NewSearcher
    /\ NewCodegen
    /\ NotRun
    /\ NoUnit
    /\ pc = "start"

\* searcher.find_path(&lhs, &rhs)
FindPath ==
    /\ pc = "start"
    /\ result' = find_path(schema_rels, lhs, rhs)
    /\ pc' = "searched"
    /\ UNCHANGED <<lhs, rhs, schema_rels, calls, codegen_vars, run_vars,
                   unit_vars>>

(***************************************************************************)
(* codegen.rs: JSCodegen::generate, one action per instruction.            *)
(***************************************************************************)
\* generate(path.into_iter()) is entered with the path find_path returned.
Generate ==
    /\ pc = "searched"
    /\ result.tag = "Ok"
    /\ ir' = result.path
    /\ pc' = "generating"
    /\ UNCHANGED <<unit_vars, searcher_vars, varstack, uniq, frags, prog, code, run_vars>>

\* The loop takes the next instruction, an `opname`.
Takes(opname) == pc = "generating" /\ ir # <<>> /\ Head(ir).op = opname

\* A panic! of the generator: the process aborts.
Panic ==
    /\ pc' = "panicked"
    /\ ir' = Tail(ir)
    /\ UNCHANGED <<unit_vars, searcher_vars, varstack, uniq, frags, prog, code, run_vars>>

\* G2G(from, to)
GenG2G ==
    /\ Takes("G2G")
    /\ LET op == Head(ir)
           frag == g2g_text(op.from, op.to, output_path(varstack),
                            input_path(varstack))
       IN  IF frag = "None"
           THEN /\ ir' = Tail(ir)
                /\ UNCHANGED <<unit_vars, searcher_vars, varstack, uniq, frags, prog,
                               code, run_vars, pc>>
           ELSE IF output_path_panics(varstack) THEN Panic
           ELSE /\ frags' = Append(frags, frag)
                /\ prog' = Append(prog, Assign(output_ref(varstack),
                               g2g_expr(op.from, op.to, input_ref(varstack))))
                /\ ir' = Tail(ir)
                /\ UNCHANGED <<unit_vars, searcher_vars, varstack, uniq, code, run_vars,
                               pc>>

\* PushArr
GenPushArr ==
    /\ Takes("PushArr")
    /\ LET arrname == new_var("arr", uniq)
           idx == new_var("idx", uniq + 1)
       IN  /\ uniq' = uniq + 2
           /\ frags' = frags \o
                  <<"let " \o arrname \o " = [];",
                    "for (let " \o idx \o " = 0; " \o idx \o " < "
                        \o input_path(varstack) \o ".length; " \o idx
                        \o "++) {">>
           /\ prog' = prog \o
                  <<Let(arrname, "arr"), For(idx, input_ref(varstack))>>
           /\ varstack' = Append(varstack, Level_Arr(arrname, idx))
    /\ ir' = Tail(ir)
    /\ UNCHANGED <<unit_vars, searcher_vars, code, run_vars, pc>>

\* Faulty variant of GenPopArr: the output path is computed before the pop.
GenPopArr_path_before_pop ==
    /\ Takes("PopArr")
    /\ LET popvar == peektop(varstack)
           rest == IF varstack = <<>> THEN <<>>
                   ELSE SubSeq(varstack, 1, Len(varstack) - 1)
       IN  IF popvar.lvl # "Arr" \/ output_path_panics(rest) THEN Panic
           ELSE /\ varstack' = rest
                /\ frags' = frags \o
                       <<"}", output_path(varstack) \o " = " \o popvar.name
                                  \o ";">>
                /\ prog' = prog \o
                       <<End, Assign(output_ref(varstack),
                                     Expr("var", popvar.name))>>
                /\ ir' = Tail(ir)
                /\ UNCHANGED <<unit_vars, searcher_vars, uniq, code, run_vars, pc>>

\* PopArr
GenPopArr ==
    /\ Takes("PopArr")
    /\ LET popvar == peektop(varstack)
           rest == IF varstack = <<>> THEN <<>>
                   ELSE SubSeq(varstack, 1, Len(varstack) - 1)
       IN  IF popvar.lvl # "Arr" \/ output_path_panics(rest) THEN Panic
           ELSE /\ varstack' = rest
                /\ frags' = frags \o
                       <<"}", output_path(rest) \o " = " \o popvar.name
                                  \o ";">>
                /\ prog' = prog \o
                       <<End, Assign(output_ref(rest),
                                     Expr("var", popvar.name))>>
                /\ ir' = Tail(ir)
                /\ UNCHANGED <<unit_vars, searcher_vars, uniq, code, run_vars, pc>>

\* PushKey(k)
GenPushKey ==
    /\ Takes("PushKey")
    /\ varstack' = Append(varstack, Level_Key(Head(ir).k))
    /\ ir' = Tail(ir)
    /\ UNCHANGED <<unit_vars, searcher_vars, uniq, frags, prog, code, run_vars, pc>>

\* PopKey
GenPopKey ==
    /\ Takes("PopKey")
    /\ IF varstack = <<>>
       THEN /\ ir' = Tail(ir)
            /\ UNCHANGED <<unit_vars, searcher_vars, varstack, uniq, frags, prog, code,
                           run_vars, pc>>
       ELSE IF varstack[Len(varstack)].lvl # "Key" THEN Panic
       ELSE /\ varstack' = SubSeq(varstack, 1, Len(varstack) - 1)
            /\ ir' = Tail(ir)
            /\ UNCHANGED <<unit_vars, searcher_vars, uniq, frags, prog, code, run_vars,
                           pc>>

\* PushObj
GenPushObj ==
    /\ Takes("PushObj")
    /\ LET varname == new_var("obj", uniq)
       IN  /\ uniq' = uniq + 1
           /\ varstack' = Append(varstack, Level_Var(varname))
           /\ frags' = Append(frags, "let " \o varname \o " = {};")
           /\ prog' = Append(prog, Let(varname, "obj"))
    /\ ir' = Tail(ir)
    /\ UNCHANGED <<unit_vars, searcher_vars, code, run_vars, pc>>

\* PopObj
GenPopObj ==
    /\ Takes("PopObj")
    /\ LET top == peektop(varstack)
           rest == IF varstack = <<>> THEN <<>>
                   ELSE SubSeq(varstack, 1, Len(varstack) - 1)
       IN  IF output_path_panics(rest) THEN Panic
           ELSE /\ varstack' = rest
                /\ frags' = Append(frags, output_path(rest) \o " = "
                                              \o to_string(top) \o ";")
                /\ prog' = Append(prog, Assign(output_ref(rest),
                                            Expr("var", to_string(top))))
                /\ ir' = Tail(ir)
                /\ UNCHANGED <<unit_vars, searcher_vars, uniq, code, run_vars, pc>>

\* Abs(k)
GenAbs ==
    /\ Takes("Abs")
    /\ IF output_path_panics(varstack) THEN Panic
       ELSE /\ frags' = Append(frags, output_path(varstack) \o " = {\""
                            \o Head(ir).k \o "\": " \o input_path(varstack)
                            \o " };")
            /\ prog' = Append(prog, Assign(output_ref(varstack),
                           [f |-> "wrap", in |-> input_ref(varstack),
                            k |-> Head(ir).k]))
            /\ ir' = Tail(ir)
            /\ UNCHANGED <<unit_vars, searcher_vars, varstack, uniq, code, run_vars, pc>>

\* Copy
GenCopy ==
    /\ Takes("Copy")
    /\ IF output_path_panics(varstack) THEN Panic
       ELSE /\ frags' = Append(frags, output_path(varstack)
                            \o " = structuredClone(" \o input_path(varstack)
                            \o ");")
            /\ prog' = Append(prog, Assign(output_ref(varstack),
                           Expr("structuredClone", input_ref(varstack))))
            /\ ir' = Tail(ir)
            /\ UNCHANGED <<unit_vars, searcher_vars, varstack, uniq, code, run_vars, pc>>

\* Inv => todo!(), Extr(_) => todo!()
GenTodo ==
    /\ pc = "generating" /\ ir # <<>> /\ Head(ir).op \in {"Inv", "Extr"}
    /\ pc' = "todo"
    /\ ir' = Tail(ir)
    /\ UNCHANGED <<unit_vars, searcher_vars, varstack, uniq, frags, prog, code, run_vars>>

\* The iterator is exhausted: the fragments are indented, joined and wrapped.
GenFinish ==
    /\ pc = "generating" /\ ir = <<>>
    /\ LET body == format_lines(frags, 1)
       IN  IF body.tag = "panic"
           THEN /\ pc' = "panicked"
                /\ UNCHANGED code
           ELSE /\ code' = wrap_function(body.text)
                /\ pc' = "generated"
    /\ UNCHANGED <<unit_vars, searcher_vars, ir, varstack, uniq, frags, prog, run_vars>>

(***************************************************************************)
(* JSON values and the meaning of the statements generate emits.           *)
(***************************************************************************)
JNum(n) == [t |-> "num", n |-> n]
JBool(b) == [t |-> "bool", b |-> b]
JStr(s) == [t |-> "str", s |-> s]
JArr(a) == [t |-> "arr", a |-> a]
JObj(o) == [t |-> "obj", o |-> o]
JNull == [t |-> "null"]
JNaN == [t |-> "nan"]
JUndefined == [t |-> "undefined"]
Throw == [t |-> "throw"]

\* Sequences over S of length at most n that alternate between two elements
\* of S (every sequence over S, up to length 2).
SeqsUpTo(S, n) ==
    {[i \in 1..len |-> IF i % 2 = 1 THEN vw[1] ELSE vw[2]] :
        len \in 0..n, vw \in S \X S}

RECURSIVE Values(_)
\* Sample values matching a schema: what the generated function is run on.
Values(s) ==
    CASE s.tag = "Ground" ->
             (CASE s.g = "Num" -> {JNum(0), JNum(1)}
                [] s.g = "Bool" -> {JBool(TRUE), JBool(FALSE)}
                [] s.g = "String" -> {JStr("1"), JStr("a")}
                [] s.g = "Null" -> {JNull})
      [] s.tag = "Arr" -> {JArr(a) : a \in SeqsUpTo(Values(s.s), MaxLen)}
      [] s.tag = "Obj" ->
             {JObj(o) : o \in {f \in [DOMAIN s.m -> UNION {Values(s.m[k]) : k \in DOMAIN s.m}] :
                                  \A k \in DOMAIN s.m : f[k] \in Values(s.m[k])}}
      [] s.tag = "True" -> {JNull, JNum(1)}
      [] s.tag = "False" -> {}

RECURSIVE Matches(_, _)
\* The value v is valid under the schema s (a property a value lacks is not
\* held against it).
Matches(v, s) ==
    CASE s.tag = "Ground" ->
             (CASE s.g = "Num" -> v.t = "num"
                [] s.g = "Bool" -> v.t = "bool"
                [] s.g = "String" -> v.t = "str"
                [] s.g = "Null" -> v.t = "null")
      [] s.tag = "Arr" ->
             v.t = "arr" /\ \A i \in DOMAIN v.a : Matches(v.a[i], s.s)
      [] s.tag = "Obj" ->
             v.t = "obj" /\ \A k \in DOMAIN s.m \cap DOMAIN v.o :
                                Matches(v.o[k], s.m[k])
      [] s.tag = "True" -> v.t \in {"num", "bool", "str", "null", "arr", "obj"}
      [] s.tag = "False" -> FALSE

\* JavaScript's ToBoolean.
truthy(v) ==
    CASE v.t = "num" -> v.n # 0
      [] v.t = "bool" -> v.b
      [] v.t = "str" -> v.s # ""
      [] v.t \in {"arr", "obj"} -> TRUE
      [] OTHER -> FALSE

\* parseInt on the strings of Values.
parse_int(v) ==
    CASE v.t = "num" -> v
      [] v.t = "str" /\ v.s = "0" -> JNum(0)
      [] v.t = "str" /\ v.s = "1" -> JNum(1)
      [] OTHER -> JNaN

\* x.toString()
js_to_string(v) ==
    CASE v.t = "num" -> JStr(ToString(v.n))
      [] v.t = "bool" -> JStr(IF v.b THEN "true" ELSE "false")
      [] v.t = "str" -> v
      [] v.t = "nan" -> JStr("NaN")
      [] v.t = "arr" -> JStr("<array>")
      [] v.t = "obj" -> JStr("[object Object]")
      [] OTHER -> Throw

\* One step of a member access: v.k or v[i], i the value of an index variable.
member(v, step, e) ==
    CASE v.t \in {"null", "undefined", "throw"} -> Throw
      [] step.sel = "key" /\ v.t = "obj" ->
             IF step.at \in DOMAIN v.o THEN v.o[step.at] ELSE JUndefined
      [] step.sel = "idx" /\ v.t = "arr" ->
             IF e[step.at].n + 1 \in DOMAIN v.a THEN v.a[e[step.at].n + 1]
             ELSE JUndefined
      [] OTHER -> JUndefined

RECURSIVE read_from(_, _, _)
read_from(v, steps, e) ==
    IF steps = <<>> THEN v
    ELSE read_from(member(v, Head(steps), e), Tail(steps), e)

\* The value of an input path.
read(in, e) == read_from(e[to_string(arg)], in, e)

\* IN.length
length_of(v) ==
    CASE v.t \in {"null", "undefined", "throw"} -> Throw
      [] v.t = "arr" -> JNum(Len(v.a))
      [] v.t = "str" -> JNum(Len(v.s))
      [] OTHER -> JUndefined

\* The value of the right-hand side of an assignment.
eval(x, e) ==
    CASE x.f = "zero" -> JNum(0)
      [] x.f = "false" -> JBool(FALSE)
      [] x.f = "nullstr" -> JStr("null")
      [] x.f = "null" -> JNull
      [] x.f = "var" -> IF x.in \in DOMAIN e THEN e[x.in] ELSE Throw
      [] OTHER ->
           LET v == read(x.in, e)
           IN  CASE v.t = "throw" -> Throw
                 [] x.f = "ne0" -> JBool(~(v.t = "num" /\ v.n = 0))
                 [] x.f = "cond01" -> IF truthy(v) THEN JNum(0) ELSE JNum(1)
                 [] x.f = "parseInt" -> parse_int(v)
                 [] x.f = "notnot" -> JBool(truthy(v))
                 [] x.f = "toString" -> js_to_string(v)
                 [] x.f = "structuredClone" -> v
                 [] x.f = "wrap" -> JObj([k \in {x.k} |-> v])

\* a[i] = v on the elements of a, i counted from 0.
set_index(a, i, v) ==
    [j \in 1..(IF i + 1 > Len(a) THEN i + 1 ELSE Len(a)) |->
        IF j = i + 1 THEN v ELSE IF j <= Len(a) THEN a[j] ELSE JUndefined]

\* OUT = v: the bindings afterwards, or Throw.
store(out, v, e) ==
    CASE out.sel = "var" -> [n \in DOMAIN e \cup {out.base} |->
                                IF n = out.base THEN v ELSE e[n]]
      [] out.base \notin DOMAIN e -> Throw
      [] e[out.base].t \in {"null", "undefined"} -> Throw
      [] out.sel = "key" /\ e[out.base].t = "obj" ->
             [e EXCEPT ![out.base] =
                 JObj([k \in DOMAIN @.o \cup {out.at} |->
                          IF k = out.at THEN v ELSE @.o[k]])]
      [] out.sel = "idx" /\ e[out.base].t = "arr" ->
             [e EXCEPT ![out.base] = JArr(set_index(@.a, e[out.at].n, v))]
      [] OTHER -> e

RECURSIVE closing(_, _, _)
\* The index of the `}` that closes the loop whose body starts at i.
closing(p, i, depth) ==
    IF p[i].s = "end" THEN IF depth = 0 THEN i ELSE closing(p, i + 1, depth - 1)
    ELSE IF p[i].s = "for" THEN closing(p, i + 1, depth + 1)
    ELSE closing(p, i + 1, depth)

RECURSIVE opening(_, _, _)
\* The index of the `for` whose body ends before i.
opening(p, i, depth) ==
    IF p[i].s = "for" THEN IF depth = 0 THEN i ELSE opening(p, i - 1, depth - 1)
    ELSE IF p[i].s = "end" THEN opening(p, i - 1, depth + 1)
    ELSE opening(p, i - 1, depth)

(***************************************************************************)
(* Running the generated function on a value that matches lhs.             *)
(***************************************************************************)
Call ==
    /\ pc = "generated"
    /\ \E v \in Values(lhs) : env' = [n \in {to_string(arg)} |-> v]
    /\ ip' = 1
    /\ pc' = "running"
    /\ UNCHANGED <<unit_vars, searcher_vars, codegen_vars, retval>>

At(kind) == pc = "running" /\ ip \in DOMAIN prog /\ prog[ip].s = kind

Raise ==
    /\ pc' = "threw"
    /\ UNCHANGED <<unit_vars, searcher_vars, codegen_vars, env, ip, retval>>

\* let a = [];  let o = {};
RunLet ==
    /\ At("let")
    /\ env' = store([sel |-> "var", base |-> prog[ip].name],
                    IF prog[ip].init = "arr" THEN JArr(<<>>)
                    ELSE JObj([k \in {} |-> JNull]), env)
    /\ ip' = ip + 1
    /\ UNCHANGED <<unit_vars, searcher_vars, codegen_vars, retval, pc>>

\* The loop test i < IN.length with the bindings e: into the body at `body`
\* or past the closing brace at `past`.
LoopTest(e, in, idx, body, past) ==
    LET n == length_of(read(in, e))
    IN  IF n.t = "throw" THEN Raise
        ELSE /\ env' = e
             /\ ip' = IF n.t = "num" /\ e[idx].n < n.n THEN body ELSE past
             /\ UNCHANGED <<unit_vars, searcher_vars, codegen_vars, retval, pc>>

\* for (let i = 0; i < IN.length; i++) {
RunFor ==
    /\ At("for")
    /\ LoopTest(store([sel |-> "var", base |-> prog[ip].idx], JNum(0), env),
                prog[ip].in, prog[ip].idx, ip + 1,
                closing(prog, ip + 1, 0) + 1)

\* }: i++ and the test again
RunEnd ==
    /\ At("end")
    /\ LET for == prog[opening(prog, ip - 1, 0)]
       IN  LoopTest([env EXCEPT ![for.idx] = JNum(@.n + 1)], for.in, for.idx,
                    opening(prog, ip - 1, 0) + 1, ip + 1)

\* OUT = E;
RunAssign ==
    /\ At("assign")
    /\ LET v == eval(prog[ip].e, env)
           e == IF v.t = "throw" THEN Throw ELSE store(prog[ip].out, v, env)
       IN  IF e = Throw THEN Raise
           ELSE /\ env' = e
                /\ ip' = ip + 1
                /\ UNCHANGED <<unit_vars, searcher_vars, codegen_vars, retval, pc>>

\* return <retvar>;
RunReturn ==
    /\ pc = "running" /\ ip = Len(prog) + 1
    /\ IF to_string(retvar) \in DOMAIN env
       THEN /\ retval' = env[to_string(retvar)]
            /\ pc' = "returned"
            /\ UNCHANGED <<unit_vars, searcher_vars, codegen_vars, env, ip>>
       ELSE Raise

Next ==
    \/ FindPath
    \/ Generate
    \/ GenG2G
    \/ GenPushArr
    \/ GenPopArr
    \/ GenPushKey
    \/ GenPopKey
    \/ GenPushObj
    \/ GenPopObj
    \/ GenAbs
    \/ GenCopy
    \/ GenTodo
    \/ GenFinish
    \/ Call
    \/ RunLet
    \/ RunFor
    \/ RunEnd
    \/ RunAssign
    \/ RunReturn

\* The whole pipeline: search, generate, run.
Spec == Init /\ [][Next]_vars

\* The search alone.
SpecSearch == Init /\ [][FindPath]_vars

\* Largest number of calls of find_path made on the searcher before the call
\* under study.
MaxCalls == 1

\* Faulty variant of rels_after: a path found is stored under the pair with
\* its operands swapped.
rels_after_swapped(rels, l, r) ==
    LET found == find_path(rels, l, r)
    IN  IF found.tag = "Ok"
        THEN [p \in DOMAIN rels \cup {<<r, l>>} |->
                 IF p = <<r, l>> THEN found.path ELSE rels[p]]
        ELSE rels

\* self.schema_rels after find_path(l, r) on a searcher whose table was rels:
\* find_path reads the table and has no statement that writes it.
rels_after(rels, l, r) == rels

\* The pairs of the earlier calls: the operands of the call under study, in
\* both orders and each with itself.
EarlierPairs == {<<lhs, rhs>>, <<rhs, lhs>>, <<lhs, lhs>>, <<rhs, rhs>>}

\* An earlier call searcher.find_path(&l, &r) whose result the caller drops.
EarlierCall ==
    /\ pc = "start"
    /\ calls < MaxCalls
    /\ \E p \in EarlierPairs : schema_rels' = rels_after(schema_rels, p[1], p[2])
    /\ calls' = calls + 1
    /\ UNCHANGED <<lhs, rhs, result, codegen_vars, run_vars, unit_vars, pc>>

\* Largest number of nodes of the two schemas of a pair together, where
\* several calls are made on the pair.
MaxPairNodes == 5

\* A new searcher, and two schemas of at most MaxPairNodes nodes together.
InitCalls ==
    /\ Init
    /\ Size(lhs) + Size(rhs) <= MaxPairNodes

\* Calls of find_path on one searcher: earlier ones, then the one under study.
NextCalls ==
    \/ EarlierCall
    \/ FindPath

SpecCalls == InitCalls /\ [][NextCalls]_vars

\* The search, then generate on the path found.
NextGen ==
    \/ FindPath
    \/ Generate
    \/ GenG2G
    \/ GenPushArr
    \/ GenPopArr
    \/ GenPushKey
    \/ GenPopKey
    \/ GenPushObj
    \/ GenPopObj
    \/ GenAbs
    \/ GenCopy
    \/ GenTodo
    \/ GenFinish

SpecGen == Init /\ [][NextGen]_vars
(***************************************************************************)
(* schema.rs: Schema::try_from(&serde_json::Value).                        *)
(***************************************************************************)
\* Largest number of schema positions (the document, its "items", the values
\* of its "properties", and so on inwards) of a JSON document drawn as input.
MaxJson == 3

\* serde_json::Value.  An array stands for every array and a number for
\* every number: try_from looks at neither.
Value_Null == [json |-> "null"]
Value_Bool(b) == [json |-> "bool", b |-> b]
Value_Number == [json |-> "number"]
Value_String(s) == [json |-> "string", s |-> s]
Value_Array == [json |-> "array"]
Value_Object(o) == [json |-> "object", o |-> o]

\* Result<Schema, SchemaErr>
Parsed(s) == [tag |-> "Ok", schema |-> s]
Err(e) == [tag |-> "Err", err |-> e]
InvalidSchema == Err("InvalidSchema")
ArrNeedsItems == Err("ArrNeedsItems")
ObjNeedsProperties == Err("ObjNeedsProperties")

\* BTreeMap::insert
insert(m, k, v) == [kk \in DOMAIN m \cup {k} |-> IF kk = k THEN v ELSE m[kk]]

RECURSIVE try_from(_)

RECURSIVE props_loop_skips_failed(_, _, _)
\* Faulty variant of props_loop: a property that fails to parse is left out
\* of the object.
props_loop_skips_failed(props, ks, subschemas) ==
    IF ks = <<>> THEN Parsed(Obj(subschemas))
    ELSE LET prop == Head(ks)
             subschema == try_from(props[prop])
         IN  IF subschema.tag = "Err"
             THEN props_loop_skips_failed(props, Tail(ks), subschemas)
             ELSE props_loop_skips_failed(props, Tail(ks),
                      insert(subschemas, prop, subschema.schema))

RECURSIVE props_loop(_, _, _)
\* for (prop, subschema) in props.iter() { subschemas.insert(.., try_from(..)?) }
\* over the entries ks still to visit.
props_loop(props, ks, subschemas) ==
    IF ks = <<>> THEN Parsed(Obj(subschemas))
    ELSE LET prop == Head(ks)
             subschema == try_from(props[prop])
         IN  IF subschema.tag = "Err" THEN subschema
             ELSE props_loop(props, Tail(ks),
                      insert(subschemas, prop, subschema.schema))

\* match tyname.as_str() { ... } on the object obj whose "type" is tyname.
\* Self::Num, Self::String, Self::Bool and Self::Null are the ground schemas
\* (fn num() and its siblings).
type_arm(tyname, obj) ==
    CASE tyname = "number" -> Parsed(Ground("Num"))
      [] tyname = "string" -> Parsed(Ground("String"))
      [] tyname = "boolean" -> Parsed(Ground("Bool"))
      [] tyname = "null" -> Parsed(Ground("Null"))
      [] tyname = "array" ->
           IF "items" \in DOMAIN obj
           THEN LET item_type == try_from(obj["items"])
                IN  IF item_type.tag = "Err" THEN item_type
                    ELSE Parsed(Arr(item_type.schema))
           ELSE ArrNeedsItems
      [] tyname = "object" ->
           IF "properties" \in DOMAIN obj /\ obj["properties"].json = "object"
           THEN LET props == obj["properties"].o
                IN  props_loop(props, iter(props), [k \in {} |-> True])
           ELSE ObjNeedsProperties
      [] OTHER -> InvalidSchema

\* impl TryFrom<&Value> for Schema
try_from(v) ==
    CASE v.json = "bool" -> Parsed(IF v.b THEN True ELSE False)
      [] v.json = "object" ->
           IF "type" \notin DOMAIN v.o THEN InvalidSchema
           ELSE LET ty == v.o["type"]
                IN  IF ty.json = "string" THEN type_arm(ty.s, v.o)
                    ELSE InvalidSchema
      [] OTHER -> InvalidSchema

\* Values that are neither a boolean nor an object, and the two booleans.
Scalars ==
    {Value_Null, Value_Number, Value_Array, Value_String("number"),
     Value_Bool(TRUE), Value_Bool(FALSE)}

\* What "type" holds in the documents drawn, besides "array" and "object":
\* the four ground names, a name try_from does not know, and a non-string.
LeafTypes ==
    {Value_String(t) : t \in {"number", "string", "boolean", "null", "integer"}}
        \cup {Value_Number}

RECURSIVE Weight(_)
RECURSIVE SumWeights(_, _)
\* Number of schema positions of a document.
Weight(v) ==
    IF v.json # "object" THEN 1
    ELSE 1 + (IF "items" \in DOMAIN v.o THEN Weight(v.o["items"]) ELSE 0)
           + (IF "properties" \in DOMAIN v.o
                   /\ v.o["properties"].json = "object"
              THEN SumWeights(v.o["properties"].o, iter(v.o["properties"].o))
              ELSE 0)
SumWeights(m, ks) ==
    IF ks = <<>> THEN 0 ELSE Weight(m[Head(ks)]) + SumWeights(m, Tail(ks))

RECURSIVE DocsUpTo(_)
\* The documents of at most n schema positions: scalars, objects without
\* "type" or with a leaf type, "array" objects with and without "items",
\* "object" objects without "properties", with "properties" that is no
\* object, and with "properties" over Keys (no key, one key, or the two keys
\* with i positions under the first and the rest under the second).  A
\* document holds the fields try_from reads for its type.
DocsUpTo(n) ==
    IF n = 0 THEN {}
    ELSE LET sub == DocsUpTo(n - 1)
             array == "type" :> Value_String("array")
             object == "type" :> Value_String("object")
             with(m) == Value_Object(object @@ ("properties" :> Value_Object(m)))
             two == UNION {{(KeyOrder[1] :> a) @@ (KeyOrder[2] :> b) :
                               a \in {d \in DocsUpTo(i) : Weight(d) = i},
                               b \in DocsUpTo(n - 1 - i)} : i \in 1..(n - 2)}
         IN  Scalars
             \cup {Value_Object([f \in {} |-> Value_Null])}
             \cup {Value_Object("type" :> t) : t \in LeafTypes}
             \cup {Value_Object(array)}
             \cup {Value_Object(array @@ ("items" :> d)) : d \in sub}
             \cup {Value_Object(object),
                   Value_Object(object @@ ("properties" :> Value_Number)),
                   with([k \in {} |-> Value_Null])}
             \cup {with(k :> d) : k \in Keys, d \in sub}
             \cup {with(m) : m \in two}

Docs == DocsUpTo(MaxJson)

\* A JSON document, and no call of try_from yet.
InitParse ==
    /\ value \in Docs
    /\ schema = "none"
    /\ left = "none"
    /\ right = "none"
    /\ ordering = "none"
    /\ inpath = "none"
    /\ dist = "none"
    /\ lhs = True
    /\ rhs = True
    /\ NewSearcher
    /\ NewCodegen
    /\ NotRun
    /\ pc = "start"

\* Schema::try_from(&value)
Parse ==
    /\ pc = "start"
    /\ schema' = try_from(value)
    /\ pc' = "parsed"
    /\ UNCHANGED <<value, left, right, ordering, inpath, dist, searcher_vars,
                   codegen_vars, run_vars>>

\* Parsing alone.
SpecParse == InitParse /\ [][Parse]_vars

(***************************************************************************)
(* schema.rs, searcher.rs: ExtNat (the two files hold the same text).      *)
(***************************************************************************)
\* Largest n of the Nat(n) drawn as operands.
MaxNat == 9

\* enum ExtNat { Nat(u64), Inf }
ExtNat_Nat(n) == [ext |-> "Nat", n |-> n]
ExtNat_Inf == [ext |-> "Inf"]
ExtNats == {ExtNat_Nat(n) : n \in 0..MaxNat} \cup {ExtNat_Inf}

\* impl PartialOrd for ExtNat: partial_cmp, an Option<Ordering>.
partial_cmp(self, other) ==
    CASE self.ext = "Inf" /\ other.ext = "Inf" -> "None"
      [] self.ext = "Nat" /\ other.ext = "Inf" -> "Less"
      [] self.ext = "Inf" /\ other.ext = "Nat" -> "Greater"
      [] self.ext = "Nat" /\ other.ext = "Nat" ->
           IF self.n < other.n THEN "Less"
           ELSE IF self.n = other.n THEN "Equal"
           ELSE "Greater"

\* Two extended naturals, and no comparison yet.
InitExtNat ==
    /\ left \in ExtNats
    /\ right \in ExtNats
    /\ ordering = "none"
    /\ value = "none"
    /\ schema = "none"
    /\ inpath = "none"
    /\ dist = "none"
    /\ lhs = True
    /\ rhs = True
    /\ NewSearcher
    /\ NewCodegen
    /\ NotRun
    /\ pc = "start"

\* left.partial_cmp(&right), which the operators <, <=, > and >= call.
Compare ==
    /\ pc = "start"
    /\ ordering' = partial_cmp(left, right)
    /\ pc' = "compared"
    /\ UNCHANGED <<value, schema, left, right, inpath, dist, searcher_vars,
                   codegen_vars, run_vars>>

\* Comparing alone.
SpecExtNat == InitExtNat /\ [][Compare]_vars

(***************************************************************************)
(* schema.rs: Schema::edit_distance.                                       *)
(***************************************************************************)
\* impl Add for ExtNat
add(self, other) ==
    IF self.ext = "Inf" \/ other.ext = "Inf" THEN ExtNat_Inf
    ELSE ExtNat_Nat(self.n + other.n)

\* impl AddAssign<u64> for ExtNat: the value of self afterwards.
add_assign_u64(self, n) ==
    IF self.ext = "Nat" THEN ExtNat_Nat(self.n + n) ELSE self

RECURSIVE edit_distance(_, _)

RECURSIVE dist_loop_ignores_extra(_, _, _, _)
\* Faulty variant of dist_loop: a key of o1 that o2 lacks adds nothing.
dist_loop_ignores_extra(o1, o2, ks, d) ==
    IF ks = <<>> THEN d
    ELSE LET k == Head(ks)
         IN  IF k \notin DOMAIN o2
             THEN dist_loop_ignores_extra(o1, o2, Tail(ks), d)
             ELSE dist_loop_ignores_extra(o1, o2, Tail(ks),
                      add(d, edit_distance(o1[k], o2[k])))

RECURSIVE dist_loop(_, _, _, _)
\* for (k, v1) in o1.iter() { match o2.get(k) { .. } } over the entries ks
\* still to visit, with the value d of dist so far.
dist_loop(o1, o2, ks, d) ==
    IF ks = <<>> THEN d
    ELSE LET k == Head(ks)
         IN  IF k \notin DOMAIN o2
             THEN dist_loop(o1, o2, Tail(ks), add_assign_u64(d, 1))
             ELSE dist_loop(o1, o2, Tail(ks),
                      add(d, edit_distance(o1[k], o2[k])))

\* Schema::edit_distance
edit_distance(self, other) ==
    IF self = other THEN ExtNat_Nat(0)
    ELSE CASE self.tag = "Arr" /\ other.tag = "Arr" ->
                edit_distance(self.s, other.s)
           [] self.tag = "Obj" /\ other.tag = "Obj" ->
                IF \E k \in DOMAIN other.m : k \notin DOMAIN self.m
                THEN ExtNat_Inf
                ELSE dist_loop(self.m, other.m, iter(self.m), ExtNat_Nat(0))
           [] self.tag = "Obj" /\ other.tag # "Obj" ->
                IF \E k \in DOMAIN self.m : self.m[k] = other
                THEN ExtNat_Nat(1)
                ELSE ExtNat_Inf
           [] OTHER -> ExtNat_Nat(1)

\* lhs.edit_distance(&rhs), by the caller that has searched the pair.
Distance ==
    /\ pc = "searched"
    /\ dist' = edit_distance(lhs, rhs)
    /\ pc' = "measured"
    /\ UNCHANGED <<value, schema, left, right, ordering, inpath,
                   searcher_vars, codegen_vars, run_vars>>

\* The search of a pair, then its edit distance.
NextDist ==
    \/ FindPath
    \/ Distance

SpecDist == Init /\ [][NextDist]_vars

(***************************************************************************)
(* codegen.rs: JSCodegen::input_path on any varstack.                      *)
(***************************************************************************)
\* Largest number of frames of a varstack drawn as input.
MaxStack == 4

\* The frames drawn: those of test_input_path.
Levels ==
    {Level_Key("quux"), Level_Var("obj0"), Level_Arr("foo", "i"),
     Level_Key("bar")}

\* The varstacks of at most MaxStack frames.
Stacks == UNION {[1..n -> Levels] : n \in 0..MaxStack}

\* A generator holding any varstack, and no call of input_path yet.
InitPath ==
    /\ varstack \in Stacks
    /\ ir = <<>>
    /\ uniq = 0
    /\ frags = <<>>
    /\ prog = <<>>
    /\ code = ""
    /\ NoUnit
    /\ lhs = True
    /\ rhs = True
    /\ NewSearcher
    /\ NotRun
    /\ pc = "start"

\* self.input_path()
InputPath ==
    /\ pc = "start"
    /\ inpath' = input_path(varstack)
    /\ pc' = "pathed"
    /\ UNCHANGED <<value, schema, left, right, ordering, dist, searcher_vars,
                   codegen_vars, run_vars>>

\* input_path alone.
SpecPath == InitPath /\ [][InputPath]_vars

(***************************************************************************)
(* codegen.rs: JSCodegen::generate on any instruction sequence.            *)
(***************************************************************************)
\* Largest length of an instruction sequence drawn as input.
MaxIR == 4

\* The instructions drawn: one of each kind.
Instructions ==
    {G2G("Num", "String"), Copy, PushArr, PopArr, PushObj, PopObj,
     PushKey("foo"), PopKey, Abs("foo"), Extr("foo"), Inv}

\* The instruction sequences of at most MaxIR instructions.
IRSeqs == UNION {[1..n -> Instructions] : n \in 0..MaxIR}

\* JSCodegen::new("input", "output"), and generate entered with any iterator.
InitIR ==
    /\ ir \in IRSeqs
    /\ varstack = <<>>
    /\ uniq = 0
    /\ frags = <<>>
    /\ prog = <<>>
    /\ code = ""
    /\ pc = "generating"
    /\ lhs = True
    /\ rhs = True
    /\ NewSearcher
    /\ NotRun
    /\ NoUnit

\* generate, one instruction at a time.
NextIR ==
    \/ GenG2G
    \/ GenPushArr
    \/ GenPopArr
    \/ GenPushKey
    \/ GenPopKey
    \/ GenPushObj
    \/ GenPopObj
    \/ GenAbs
    \/ GenCopy
    \/ GenTodo
    \/ GenFinish

SpecIR == InitIR /\ [][NextIR]_vars

(***************************************************************************)
(* Properties of the search.                                               *)
(***************************************************************************)
\* find_path has returned.
Searched == pc # "start"
\* find_path has returned Ok(path).
Found == Searched /\ result.tag = "Ok"

BothObj == lhs.tag = "Obj" /\ rhs.tag = "Obj"
KeyMissing == \E k \in DOMAIN rhs.m : k \notin DOMAIN lhs.m

\* The result of the search for the values of key k of the two objects.
Sub(k) == find_path(schema_rels, lhs.m[k], rhs.m[k])

\* C1: round-trip soundness: whenever find_path succeeds, the function that
\* generate produces from the path, run on a value matching the source
\* schema, returns a value matching the target schema (it does not throw,
\* and what it returns is valid under rhs).
C1_RoundTrip ==
    pc \in {"returned", "threw"} => pc = "returned" /\ Matches(retval, rhs)

RECURSIVE Nested(_, _)
\* The instructions of path close what the stack `open` and they themselves
\* open, each Pop closing the most recent unclosed Push, of its own kind.
Nested(path, open) ==
    IF path = <<>> THEN open = <<>>
    ELSE LET op == Head(path).op
         IN  CASE op \in {"PushArr", "PushObj", "PushKey"} ->
                    Nested(Tail(path), Append(open, op))
               [] op \in {"PopArr", "PopObj", "PopKey"} ->
                    /\ open # <<>>
                    /\ open[Len(open)] =
                           (CASE op = "PopArr" -> "PushArr"
                              [] op = "PopObj" -> "PushObj"
                              [] op = "PopKey" -> "PushKey")
                    /\ Nested(Tail(path), SubSeq(open, 1, Len(open) - 1))
               [] OTHER -> Nested(Tail(path), open)

\* C2: every path a successful find_path returns is well-formed: its
\* PushArr/PopArr, PushObj/PopObj and PushKey/PopKey are matched and
\* properly nested.
C2_WellFormed == Found => Nested(result.path, <<>>)

\* C2 witness: an array nested in a key nested in an object was found.
C2_Witness ==
    /\ Found
    /\ result.path = <<PushObj, PushKey("foo"), PushArr, G2G("Num", "String"),
                       PopArr, PopKey, PopObj>>

RECURSIVE C3_Keys(_)
\* What the keys ks, taken in ascending order, contribute to an
\* object-to-object path: a key of both maps its bracketed conversion, any
\* other key nothing.
C3_Keys(ks) ==
    IF ks = <<>> THEN <<>>
    ELSE LET k == Head(ks)
         IN  (IF k \in DOMAIN lhs.m /\ k \in DOMAIN rhs.m
              THEN <<PushKey(k)>> \o Sub(k).path \o <<PopKey>>
              ELSE <<>>) \o C3_Keys(Tail(ks))

\* C3: object to object: NoPath when a key of the target is absent from the
\* source; otherwise, the per-key searches having succeeded, PushObj, then
\* for each common key in ascending order PushKey(k), the path for the key's
\* values, PopKey, and finally PopObj; keys of the source alone add nothing.
C3_ObjToObj ==
    (Searched /\ BothObj) =>
        IF KeyMissing THEN result = NoPath
        ELSE (\A k \in DOMAIN rhs.m : Sub(k).tag = "Ok") =>
                 result = Ok(<<PushObj>> \o C3_Keys(KeyOrder) \o <<PopObj>>)

\* C3 witness: two common keys converted in ascending order (the case of
\* test_converting_objects).
C3_Witness ==
    /\ Searched /\ BothObj
    /\ lhs.m = [k \in {"foo", "bar"} |->
                   IF k = "foo" THEN Ground("Num") ELSE Ground("Bool")]
    /\ rhs.m = [k \in {"foo", "bar"} |->
                   IF k = "foo" THEN Ground("String") ELSE Ground("Bool")]
    /\ result = Ok(<<PushObj, PushKey("bar"), Copy, PopKey, PushKey("foo"),
                     G2G("Num", "String"), PopKey, PopObj>>)

\* C4: ground to ground: the search succeeds with exactly [Copy] for equal
\* grounds and exactly [G2G(g1, g2)] for different ones.
C4_GroundToGround ==
    (Searched /\ lhs.tag = "Ground" /\ rhs.tag = "Ground") =>
        result = IF lhs.g = rhs.g THEN Ok(<<Copy>>)
                 ELSE Ok(<<G2G(lhs.g, rhs.g)>>)

\* C4 witness: a coercion between two different grounds was found.
C4_Witness ==
    /\ Searched
    /\ lhs = Ground("Bool") /\ rhs = Ground("Null")
    /\ result = Ok(<<G2G("Bool", "Null")>>)

\* C5: ground to object: NoPath unless the object has exactly one entry
\* (k, v); then the path from the ground to v with Abs(k) appended last, or
\* NoPath when there is no path to v; [G2G(g1, g2), Abs(k)] when v is another
\* ground g2.
C5_Abstraction ==
    (Searched /\ lhs.tag = "Ground" /\ rhs.tag = "Obj") =>
        IF Cardinality(DOMAIN rhs.m) # 1 THEN result = NoPath
        ELSE LET k == CHOOSE k \in DOMAIN rhs.m : TRUE
                 inner == find_path(schema_rels, lhs, rhs.m[k])
             IN  /\ inner.tag = "Err" => result = NoPath
                 /\ inner.tag = "Ok" =>
                        result = Ok(inner.path \o <<Abs(k)>>)
                 /\ (rhs.m[k].tag = "Ground" /\ rhs.m[k].g # lhs.g) =>
                        result = Ok(<<G2G(lhs.g, rhs.m[k].g), Abs(k)>>)

\* C5 witness: a ground was coerced and then abstracted under a key.
C5_Witness ==
    /\ Searched
    /\ lhs = Ground("Num")
    /\ rhs = Obj([k \in {"foo"} |-> Ground("String")])
    /\ result = Ok(<<G2G("Num", "String"), Abs("foo")>>)

\* The position of a key in the ascending order of keys.
Rank(k) == CHOOSE i \in DOMAIN KeyOrder : KeyOrder[i] = k

\* C6: object to ground: exactly [Extr(k)] for the smallest key k of the
\* object whose value is that ground, NoPath when no property has it.
C6_Extraction ==
    (Searched /\ lhs.tag = "Obj" /\ rhs.tag = "Ground") =>
        LET hits == {k \in DOMAIN lhs.m : lhs.m[k] = rhs}
        IN  IF hits = {} THEN result = NoPath
            ELSE \E k \in hits :
                    /\ \A h \in hits : Rank(k) <= Rank(h)
                    /\ result = Ok(<<Extr(k)>>)

\* C6 witness: two properties have the ground, the smaller key is taken.
C6_Witness ==
    /\ Searched
    /\ lhs = Obj([k \in {"foo", "bar"} |-> Ground("Num")])
    /\ rhs = Ground("Num")
    /\ result = Ok(<<Extr("bar")>>)

\* C7: array to array: PushArr, the path between the element schemas,
\* PopArr when that path exists, NoPath when it does not.
C7_ArrToArr ==
    (Searched /\ lhs.tag = "Arr" /\ rhs.tag = "Arr") =>
        LET elem == find_path(schema_rels, lhs.s, rhs.s)
        IN  IF elem.tag = "Ok"
            THEN result = Ok(<<PushArr>> \o elem.path \o <<PopArr>>)
            ELSE result = NoPath

\* C7 witness: an array of arrays was converted.
C7_Witness ==
    /\ Searched
    /\ lhs = Arr(Arr(Ground("Num"))) /\ rhs = Arr(Arr(Ground("Bool")))
    /\ result = Ok(<<PushArr, PushArr, G2G("Num", "Bool"), PopArr, PopArr>>)

\* C8: False is unreachable in both directions: the search from False to
\* anything and from anything to False returns NoPath.
C8_FalseNoPath ==
    (Searched /\ (lhs = False \/ rhs = False)) => result = NoPath

\* C9: True is trivially convertible in both directions: the search from
\* True to anything and from anything to True succeeds with the empty path.
C9_TrueEmpty ==
    (Searched /\ (lhs = True \/ rhs = True)) => result = Ok(<<>>)

\* C9 witness: True was searched against False.
C9_Witness ==
    /\ Searched
    /\ lhs = True /\ rhs = False
    /\ result = Ok(<<>>)

\* C10: no path between an array and a ground or an object, in either
\* direction, whatever the child schemas.
C10_ArrCrossKind ==
    (Searched /\ \/ lhs.tag = "Ground" /\ rhs.tag = "Arr"
                 \/ lhs.tag = "Arr" /\ rhs.tag = "Ground"
                 \/ lhs.tag = "Arr" /\ rhs.tag = "Obj"
                 \/ lhs.tag = "Obj" /\ rhs.tag = "Arr")
        => result = NoPath

\* C10 witness: an array of objects was searched against an object of arrays.
C10_Witness ==
    /\ Searched
    /\ lhs = Arr(Obj([k \in {"foo"} |-> Ground("Num")]))
    /\ rhs = Obj([k \in {"foo"} |-> Arr(Ground("Num"))])
    /\ result = NoPath

(***************************************************************************)
(* Failure of the search, and the table of the searcher.                   *)
(***************************************************************************)
\* The table SchemaSearcher::new() builds.
NoRels == [p \in {} |-> <<>>]

\* find_path(lhs, rhs) makes a recursive call that returns Err(NoPath): the
\* call on the value of the one key of rhs, the call on the items, or a call
\* on the two values of a key of both objects.
SubSearchFails ==
    \/ /\ lhs.tag = "Ground" /\ rhs.tag = "Obj"
       /\ Cardinality(DOMAIN rhs.m) = 1
       /\ \E k \in DOMAIN rhs.m :
              find_path(schema_rels, lhs, rhs.m[k]).tag = "Err"
    \/ /\ lhs.tag = "Arr" /\ rhs.tag = "Arr"
       /\ find_path(schema_rels, lhs.s, rhs.s).tag = "Err"
    \/ /\ BothObj /\ ~KeyMissing
       /\ \E k \in DOMAIN lhs.m \cap DOMAIN rhs.m : Sub(k).tag = "Err"

\* C11: NoPath propagates: when a recursive call made by find_path(lhs, rhs)
\* returns NoPath, find_path(lhs, rhs) returns NoPath, which carries no
\* instruction, and the table of the searcher is the one it was before the
\* call.
C11_NoPathPropagates ==
    Searched /\ SubSearchFails => result = NoPath /\ schema_rels = NoRels

\* Two objects whose first key was converted, and whose second key has no
\* path.
C11_Witness ==
    /\ Searched /\ BothObj /\ ~KeyMissing
    /\ DOMAIN lhs.m = {"bar", "foo"} /\ DOMAIN rhs.m = {"bar", "foo"}
    /\ Sub("bar").tag = "Ok" /\ Sub("bar").path # <<>>
    /\ Sub("foo").tag = "Err"
    /\ result = NoPath

\* C16: memoization: once find_path(lhs, rhs) has returned Ok(p), the table
\* schema_rels holds p under the pair (lhs, rhs), from where a later call
\* takes it.
C16_Memoized ==
    Found =>
        /\ <<lhs, rhs>> \in DOMAIN schema_rels
        /\ schema_rels[<<lhs, rhs>>] = result.path

RECURSIVE collect(_, _)
\* The BTreeMap built by inserting the entries of m in the order ks of keys.
collect(m, ks) ==
    IF ks = <<>> THEN [k \in {} |-> True]
    ELSE insert(collect(m, SubSeq(ks, 1, Len(ks) - 1)),
                ks[Len(ks)], m[ks[Len(ks)]])

\* The orders in which the keys of m can be inserted.
Orders(m) ==
    {ks \in [1..Cardinality(DOMAIN m) -> DOMAIN m] :
        \A i, j \in DOMAIN ks : i # j => ks[i] # ks[j]}

\* Schema s, with its properties inserted in each order when it is an object.
Builds(s) ==
    IF s.tag = "Obj" THEN {Obj(collect(s.m, ks)) : ks \in Orders(s.m)} ELSE {s}

Popped == IF varstack = <<>> THEN <<>>
          ELSE SubSeq(varstack, 1, Len(varstack) - 1)

\* C13: on every path a successful find_path returned, generate never
\* processes PopKey with a frame on top that is no Key, never processes PopArr
\* with a top that is no Arr, and never computes an output path with a Key on
\* top of a frame that is no Var (the output path is computed by G2G, Abs and
\* Copy on the stack as it is, and by PopArr and PopObj after the pop).
C13_NoInvariantViolation ==
    /\ Takes("PopKey") /\ varstack # <<>> => peektop(varstack).lvl = "Key"
    /\ Takes("PopArr") =>
           varstack # <<>> /\ peektop(varstack).lvl = "Arr"
    /\ Takes("G2G") \/ Takes("Abs") \/ Takes("Copy") =>
           ~(peektop(varstack).lvl = "Key" /\ nth_back_1(varstack).lvl # "Var")
    /\ Takes("PopArr") \/ Takes("PopObj") =>
           ~(peektop(Popped).lvl = "Key" /\ nth_back_1(Popped).lvl # "Var")

\* PopArr is about to close an array held under a key of an object: the top
\* is an Arr, and the output path after the pop has a Key on top of a Var.
C13_Witness ==
    /\ Takes("PopArr")
    /\ Len(varstack) = 3
    /\ varstack[3].lvl = "Arr" /\ varstack[2].lvl = "Key"
    /\ varstack[1].lvl = "Var"

\* The number of for loops open around statement i of the generated body.
Depth(i) ==
    Cardinality({j \in 1..(i - 1) : prog[j].s = "for"})
        - Cardinality({j \in 1..(i - 1) : prog[j].s = "end"})

\* C14: the body generated for a path find_path returned holds an assignment
\* to the return variable that runs before `return output;`: a statement
\* `output = ...;` outside every loop.
C14_ReturnAssigned ==
    pc = "generated" =>
        \E i \in DOMAIN prog :
            /\ prog[i].s = "assign"
            /\ prog[i].out = output_ref(<<>>)
            /\ Depth(i) = 0

(***************************************************************************)
(* Errors of Schema::try_from.                                             *)
(***************************************************************************)
RECURSIVE Errors(_, _)
\* The errors of the positions of document v that do not parse, as the
\* sentence on parse errors lists them.  With `strict`, "properties" that is
\* present and is no object counts as one more unrecognized shape; without,
\* it counts as missing "properties".
Errors(v, strict) ==
    IF v.json = "bool" THEN {}
    ELSE IF v.json # "object" THEN {"InvalidSchema"}
    ELSE IF "type" \notin DOMAIN v.o THEN {"InvalidSchema"}
    ELSE IF v.o["type"].json # "string" THEN {"InvalidSchema"}
    ELSE LET t == v.o["type"].s
         IN  CASE t \in {"number", "string", "boolean", "null"} -> {}
               [] t = "array" ->
                    IF "items" \notin DOMAIN v.o THEN {"ArrNeedsItems"}
                    ELSE Errors(v.o["items"], strict)
               [] t = "object" ->
                    IF "properties" \notin DOMAIN v.o
                    THEN {"ObjNeedsProperties"}
                    ELSE IF v.o["properties"].json # "object"
                    THEN IF strict THEN {"InvalidSchema"}
                         ELSE {"ObjNeedsProperties"}
                    ELSE UNION {Errors(v.o["properties"].o[k], strict) :
                                   k \in DOMAIN v.o["properties"].o}
               [] OTHER -> {"InvalidSchema"}

\* try_from fails exactly when a position does not parse, with the error of
\* such a position, and then returns no Schema.
ParseErrorsAre(strict) ==
    pc = "parsed" =>
        /\ schema.tag = "Err" <=> Errors(value, strict) # {}
        /\ schema.tag = "Err" =>
               /\ schema.err \in Errors(value, strict)
               /\ DOMAIN schema = {"tag", "err"}

C17_TotalOrder ==
    pc = "compared" =>
        /\ ordering \in {"Less", "Equal", "Greater"}
        /\ ordering = "Equal" <=> left = right
        /\ left.ext = "Nat" /\ right.ext = "Inf" => ordering = "Less"
        /\ left.ext = "Inf" /\ right.ext = "Inf" => ordering = "Equal"

(***************************************************************************)
(* The fragments generate pushes.                                          *)
(***************************************************************************)
\* The expression of the coercion table for a pair of distinct grounds, over
\* the input path in.
CoercionExpr(from, to, in) ==
    CASE to = "Null" -> "null"
      [] from = "Null" /\ to = "Num" -> "0"
      [] from = "Null" /\ to = "Bool" -> "false"
      [] from = "Null" /\ to = "String" -> "\"null\""
      [] from = "Num" /\ to = "Bool" -> "!(" \o in \o " === 0)"
      [] from = "Bool" /\ to = "Num" -> in \o " ? 0 : 1"
      [] from = "String" /\ to = "Num" -> "parseInt(" \o in \o ")"
      [] from = "String" /\ to = "Bool" -> "!!(" \o in \o ")"
      [] to = "String" -> in \o ".toString()"

\* C18: processing G2G(from, to) for distinct grounds appends exactly one
\* fragment, `OUT = E;` with OUT the output path, E the expression of the
\* coercion table over the input path and a closing semicolon, and leaves
\* varstack and uniq as they were.
C18_G2GEmission ==
    [][Takes("G2G") /\ Head(ir).from # Head(ir).to =>
           /\ frags' = Append(frags,
                  output_path(varstack) \o " = "
                      \o CoercionExpr(Head(ir).from, Head(ir).to,
                                      input_path(varstack))
                      \o ";")
           /\ UNCHANGED <<varstack, uniq>>]_vars

\* The output path on stack vs, by the kind of its top frame: the return
\* variable for the empty stack, `v.k` for Key(k) above Var(v), `a[i]` for
\* Arr(a, i).
OutAfter(vs) ==
    IF vs = <<>> THEN "output"
    ELSE LET top == vs[Len(vs)]
         IN  CASE top.lvl = "Key" /\ Len(vs) >= 2 /\ vs[Len(vs) - 1].lvl = "Var" ->
                    vs[Len(vs) - 1].name \o "." \o top.k
               [] top.lvl = "Arr" -> top.name \o "[" \o top.idx \o "]"
               [] OTHER -> "?"

\* C19: PopArr pops the top frame, an Arr(a, i), and pushes `}` and then
\* `OUT = a;`; PopObj pops the top frame, a Var(o), and pushes `OUT = o;`;
\* OUT is the output path on the stack after the pop.  PushArr pushes
\* `let a = [];` and `for (let i = 0; i < IN.length; i++) {` with IN the input
\* path on the stack before the frame Arr(a, i) is pushed.
C19_Closing ==
    [][/\ Takes("PopArr") =>
            /\ varstack # <<>> /\ varstack[Len(varstack)].lvl = "Arr"
            /\ varstack' = Popped
            /\ frags' = frags \o
                   <<"}", OutAfter(Popped) \o " = "
                              \o varstack[Len(varstack)].name \o ";">>
       /\ Takes("PopObj") =>
            /\ varstack # <<>> /\ varstack[Len(varstack)].lvl = "Var"
            /\ varstack' = Popped
            /\ frags' = Append(frags, OutAfter(Popped) \o " = "
                                   \o varstack[Len(varstack)].name \o ";")
       /\ Takes("PushArr") =>
            /\ Len(varstack') = Len(varstack) + 1
            /\ SubSeq(varstack', 1, Len(varstack)) = varstack
            /\ varstack'[Len(varstack')].lvl = "Arr"
            /\ LET a == varstack'[Len(varstack')].name
                   i == varstack'[Len(varstack')].idx
               IN  frags' = frags \o
                       <<"let " \o a \o " = [];",
                         "for (let " \o i \o " = 0; " \o i \o " < "
                             \o input_path(varstack) \o ".length; " \o i
                             \o "++) {">>
      ]_vars

\* PopArr has closed an array held under key foo of obj0: the stack is
\* [Var(obj0), Key(foo)] and the last two fragments are `}` and
\* `obj0.foo = arr1;`.
C19_Witness ==
    /\ pc = "generating"
    /\ varstack = <<Level_Var("obj0"), Level_Key("foo")>>
    /\ Len(frags) >= 2
    /\ frags[Len(frags) - 1] = "}"
    /\ frags[Len(frags)] = "obj0.foo = arr1;"

(***************************************************************************)
(* The input path.                                                         *)
(***************************************************************************)
\* What a frame adds to the input path.
Segment(level) ==
    CASE level.lvl = "Key" -> "." \o level.k
      [] level.lvl = "Arr" -> "[" \o level.idx \o "]"
      [] level.lvl = "Var" -> ""

RECURSIVE Joined(_)
\* The segments of the frames of vs, bottom to top.
Joined(vs) ==
    IF vs = <<>> THEN ""
    ELSE Joined(SubSeq(vs, 1, Len(vs) - 1)) \o Segment(vs[Len(vs)])

\* The stack of test_input_path.
TestStack ==
    <<Level_Key("quux"), Level_Var("obj0"), Level_Arr("foo", "i"),
      Level_Key("bar")>>

\* C20: for every varstack, input_path is the parameter followed, bottom to
\* top, by `.k` for Key(k), `[idx]` for Arr(_, idx) and nothing for Var(_):
\* `input` for the empty stack, and `input.quux[i].bar` for [Key(quux),
\* Var(obj0), Arr(foo, i), Key(bar)].
C20_InputPath ==
    pc = "pathed" =>
        /\ inpath = "input" \o Joined(varstack)
        /\ varstack = <<>> => inpath = "input"
        /\ varstack = TestStack => inpath = "input.quux[i].bar"

\* input_path has been computed on the stack of test_input_path.
C20_Witness ==
    /\ pc = "pathed"
    /\ varstack = TestStack
    /\ inpath = "input.quux[i].bar"

(***************************************************************************)
(* The text generate returns.                                              *)
(***************************************************************************)
BeginsWith(frag, c) == Len(frag) > 0 /\ SubSeq(frag, 1, 1) = c
EndsWith(frag, c) == Len(frag) > 0 /\ SubSeq(frag, Len(frag), Len(frag)) = c

\* The indent of fragment i: 1, plus one for every earlier fragment ending in
\* `{`, minus one for every fragment up to and including i beginning with `}`.
IndentOf(i) ==
    1 + Cardinality({j \in 1..(i - 1) : EndsWith(frags[j], "{")})
      - Cardinality({j \in 1..i : BeginsWith(frags[j], "}")})

\* The indent after the last fragment.
IndentAtEnd ==
    1 + Cardinality({j \in DOMAIN frags : EndsWith(frags[j], "{")})
      - Cardinality({j \in DOMAIN frags : BeginsWith(frags[j], "}")})

RECURSIVE Spaces(_)
Spaces(n) == IF n <= 0 THEN "" ELSE Spaces(n - 1) \o " "

RECURSIVE BodyUpTo(_)
\* Fragments 1..i, each on its line behind 4 x indent spaces.
BodyUpTo(i) ==
    IF i = 0 THEN ""
    ELSE (IF i = 1 THEN "" ELSE BodyUpTo(i - 1) \o "\n")
             \o Spaces(4 * IndentOf(i)) \o frags[i]

\* C22: formatting: generate on a path find_path returned does not abort in
\* the formatting pass; the text is `function(input) {`, the fragments each on
\* a line behind 4 x indent spaces, `    return output;` and `}`; the indent
\* starts at 1, grows after a fragment ending in `{`, shrinks before a
\* fragment beginning with `}`, is never below 1 and is 1 after the last
\* fragment.
C22_Formatting ==
    /\ pc # "panicked"
    /\ pc = "generated" =>
           /\ code = "function(input) {\n" \o BodyUpTo(Len(frags))
                         \o "\n    return output;\n}"
           /\ \A i \in DOMAIN frags : IndentOf(i) >= 1
           /\ IndentAtEnd = 1

\* The text of a function with a loop has been returned: a fragment two
\* levels deep, and the closing `}` back at level 1.
C22_Witness ==
    /\ pc = "generated"
    /\ \E i \in DOMAIN frags : IndentOf(i) = 2
    /\ \E i \in DOMAIN frags : frags[i] = "}" /\ IndentOf(i) = 1

(***************************************************************************)
(* generate on any instruction sequence.                                   *)
(***************************************************************************)
\* C21: PopKey discipline: processing PopKey with a Key on top of the
\* varstack removes that one frame, pushes no fragment and leaves uniq as it
\* was; processing PopKey with anything else on top aborts the generator.
C21_PopKeyDiscipline ==
    [][Takes("PopKey") =>
           IF varstack # <<>> /\ varstack[Len(varstack)].lvl = "Key"
           THEN /\ varstack' = Popped
                /\ frags' = frags
                /\ uniq' = uniq
                /\ pc' = "generating"
           ELSE pc' = "panicked"]_vars

\* The names minted so far: those the `let` and `for` statements declare.
Minted(p) ==
    {p[i].name : i \in {j \in DOMAIN p : p[j].s = "let"}}
        \cup {p[i].idx : i \in {j \in DOMAIN p : p[j].s = "for"}}

\* The number of names minted so far: one per `let`, one per `for`.
Mints(p) == Cardinality({j \in DOMAIN p : p[j].s \in {"let", "for"}})

\* C23: fresh identifiers: on any instruction sequence, each step of generate
\* adds to uniq the number of names it mints (two for PushArr, one for
\* PushObj, none for any other instruction, so uniq never decreases), and the
\* names minted in the call are all different.
C23_FreshNames ==
    [][/\ uniq' = uniq + (IF Takes("PushArr") THEN 2
                          ELSE IF Takes("PushObj") THEN 1
                          ELSE 0)
       /\ Mints(prog') = uniq'
       /\ Cardinality(Minted(prog')) = Mints(prog')]_vars

\* Two PushArr and one PushObj have been processed: five names minted.
C23_Witness ==
    /\ pc = "generating"
    /\ uniq = 5
    /\ Minted(prog) = {"arr0", "idx1", "obj2", "arr3", "idx4"}

\* C26: the pipeline completes whenever the search succeeds: generate on the
\* path find_path returned finishes with a source text, and reaches neither
\* an abort nor an instruction that is not implemented.
C26_Completes == pc \notin {"panicked", "todo"}

\* C27: no overwritten output: in the statements generated from a path
\* find_path returned, no two assignments write the same location (the return
\* variable, a property of an auxiliary object, an element of an array inside
\* its loop: the names of the variables are fresh, so equal locations are the
\* same location in the same iteration).
C27_NoOverwrite ==
    \A i, j \in DOMAIN prog :
        i < j /\ prog[i].s = "assign" /\ prog[j].s = "assign" =>
            prog[i].out # prog[j].out

(***************************************************************************)
(* The edit distance.                                                      *)
(***************************************************************************)
RECURSIVE Total(_, _)
\* The saturating sum of the terms t[k] for k in the set ks: Inf when a term
\* is Inf, the sum of the numbers otherwise.
Total(t, ks) ==
    IF ks = {} THEN ExtNat_Nat(0)
    ELSE LET k == CHOOSE key \in ks : TRUE
             rest == Total(t, ks \ {k})
         IN  IF t[k].ext = "Inf" \/ rest.ext = "Inf" THEN ExtNat_Inf
             ELSE ExtNat_Nat(t[k].n + rest.n)

RECURSIVE Defined(_, _)
\* The edit distance of a and b, as its definition words it.
Defined(a, b) ==
    IF a = b THEN ExtNat_Nat(0)
    ELSE IF a.tag = "Arr" /\ b.tag = "Arr" THEN Defined(a.s, b.s)
    ELSE IF a.tag = "Obj" /\ b.tag = "Obj"
    THEN IF ~(DOMAIN b.m \subseteq DOMAIN a.m) THEN ExtNat_Inf
         ELSE Total([k \in DOMAIN a.m |->
                        IF k \in DOMAIN b.m THEN Defined(a.m[k], b.m[k])
                        ELSE ExtNat_Nat(1)],
                    DOMAIN a.m)
    ELSE IF a.tag = "Obj"
    THEN IF b \in {a.m[k] : k \in DOMAIN a.m} THEN ExtNat_Nat(1)
         ELSE ExtNat_Inf
    ELSE ExtNat_Nat(1)

\* C24: edit_distance(a, b) is Nat(0) for a = b; otherwise the distance of
\* the items for two arrays; for two objects Inf when the target has a key
\* the source lacks, else the saturating sum over the keys of the source of
\* the distance of the two values, a key of the source alone counting 1; for
\* an object and a non-object Nat(1) when a property value of the object
\* equals the target, else Inf; Nat(1) in every other case.
C24_EditDistance == pc = "measured" => dist = Defined(lhs, rhs)

\* Two objects: one key whose values differ and one key the target lacks
\* give distance 2.
C24_Witness ==
    /\ pc = "measured"
    /\ BothObj
    /\ DOMAIN lhs.m = {"bar", "foo"} /\ DOMAIN rhs.m = {"bar"}
    /\ lhs.m["bar"] # rhs.m["bar"]
    /\ dist = ExtNat_Nat(2)

\* C25: Inf means no path: whenever find_path(lhs, rhs) succeeds,
\* lhs.edit_distance(&rhs) is a Nat, never Inf.
C25_FiniteWhenFound ==
    pc = "measured" /\ result.tag = "Ok" => dist.ext = "Nat"
====
